---- MODULE Spec2Model ----
\* Model of sast_energy_monitor/cli.py: build_scan_command, run_measurement
\* and main.  Strings are sequences of atoms; an atom is one character
\* (space, double quote, backslash, newline, an ordinary letter) or one
\* fixed literal word of the source that contains none of the special
\* characters ("bandit", "--config=", ...).
EXTENDS Integers, Sequences, FiniteSets, TLC

\* ---------------------------------------------------------------- bounds
MaxPathLen == 2
MaxCfgLen == 1
MaxStdoutLen == 4
MaxExitCode == 3

\* ---------------------------------------------------------------- atoms
SP == " "
DQ == "\""
BS == "\\"
NL == "\n"
SLASH == "/"

PACKAGE_NAME == "sast_energy_monitor"
CONFIG_DIR_NAME == "configs"
BANDIT_CONFIG_FILES == [loose |-> ".bandit_basic", strict |-> ".bandit"]
SEMGREP_CONFIG_FILES == [loose |-> "semgrep.yml", strict |-> "p/bandit"]

EnergyMarker == <<"Energy consumption in joules", ":">>

\* ------------------------------------------------------- string helpers
RECURSIVE SeqsUpTo(_, _)
SeqsUpTo(S, n) ==
    IF n = 0 THEN {<<>>}
    ELSE LET shorter == SeqsUpTo(S, n - 1)
         IN shorter \cup {Append(s, c) : s \in {t \in shorter : Len(t) = n - 1}, c \in S}

\* needle in haystack (Python's `in` on str)
Contains(hay, needle) ==
    \E i \in 1..(Len(hay) - Len(needle) + 1) :
        SubSeq(hay, i, i + Len(needle) - 1) = needle

\* str.strip(chars)
RECURSIVE LStrip(_, _)
LStrip(s, chars) ==
    IF s # <<>> /\ Head(s) \in chars THEN LStrip(Tail(s), chars) ELSE s

RECURSIVE RStrip(_, _)
RStrip(s, chars) ==
    IF s # <<>> /\ s[Len(s)] \in chars THEN RStrip(SubSeq(s, 1, Len(s) - 1), chars) ELSE s

StripChars(s, chars) == RStrip(LStrip(s, chars), chars)

Whitespace == {SP, NL}

\* str.strip() with no argument
Strip(s) == StripChars(s, Whitespace)

\* str.splitlines(): a trailing line break yields no empty last line
RECURSIVE SplitLinesFrom(_, _)
SplitLinesFrom(s, cur) ==
    IF s = <<>> THEN (IF cur = <<>> THEN <<>> ELSE <<cur>>)
    ELSE IF Head(s) = NL THEN <<cur>> \o SplitLinesFrom(Tail(s), <<>>)
    ELSE SplitLinesFrom(Tail(s), Append(cur, Head(s)))

SplitLines(s) == SplitLinesFrom(s, <<>>)

\* ------------------------------------------------------------ shlex.split
\* shlex.split(s, posix=...) with whitespace_split = True and no commenters.
\* st is shlex.state: "sp" (' '), "a" (in a word), DQ (inside quotes),
\* BS (after an escape).  est is escapedstate.  The result is
\* [err |-> BOOLEAN, toks |-> sequence of tokens].
EmitToken(out, tok, quoted, posix) ==
    IF tok # <<>> \/ (posix /\ quoted) THEN Append(out, tok) ELSE out

RECURSIVE ReadToken(_, _, _, _, _, _, _)
ReadToken(s, st, est, tok, quoted, out, posix) ==
    IF s = <<>> THEN
        IF st \in {DQ, BS} THEN [err |-> TRUE, toks |-> <<>>]
        ELSE [err |-> FALSE, toks |-> EmitToken(out, tok, quoted, posix)]
    ELSE
    LET c == Head(s)
        r == Tail(s)
    IN  CASE st = "sp" ->
               IF c \in Whitespace THEN
                   IF tok # <<>> \/ (posix /\ quoted)
                   THEN ReadToken(r, "sp", "sp", <<>>, FALSE, Append(out, tok), posix)
                   ELSE ReadToken(r, "sp", est, tok, quoted, out, posix)
               ELSE IF posix /\ c = BS THEN ReadToken(r, BS, "a", tok, quoted, out, posix)
               ELSE IF c = DQ THEN
                   ReadToken(r, DQ, est, IF posix THEN tok ELSE <<c>>, quoted, out, posix)
               ELSE ReadToken(r, "a", est, <<c>>, quoted, out, posix)
          [] st = DQ ->
               IF c = DQ THEN
                   IF posix THEN ReadToken(r, "a", est, tok, TRUE, out, posix)
                   ELSE ReadToken(r, "sp", "sp", <<>>, FALSE, Append(out, Append(tok, c)), posix)
               ELSE IF posix /\ c = BS THEN ReadToken(r, BS, DQ, tok, TRUE, out, posix)
               ELSE ReadToken(r, DQ, est, Append(tok, c), TRUE, out, posix)
          [] st = BS ->
               LET kept == IF est = DQ /\ c # BS /\ c # est THEN Append(tok, BS) ELSE tok
               IN  ReadToken(r, est, est, Append(kept, c), quoted, out, posix)
          [] st = "a" ->
               IF c \in Whitespace THEN
                   IF tok # <<>> \/ (posix /\ quoted)
                   THEN ReadToken(r, "sp", "sp", <<>>, FALSE, Append(out, tok), posix)
                   ELSE ReadToken(r, "sp", est, tok, quoted, out, posix)
               ELSE IF posix /\ c = DQ THEN ReadToken(r, DQ, est, tok, quoted, out, posix)
               ELSE IF posix /\ c = BS THEN ReadToken(r, BS, "a", tok, quoted, out, posix)
               ELSE ReadToken(r, "a", est, Append(tok, c), quoted, out, posix)

ShlexSplit(s, posix) == ReadToken(s, "sp", "sp", <<>>, FALSE, <<>>, posix)

\* ------------------------------------------------------------ constants
Tools == {"bandit", "semgrep"}
Levels == {"strict", "loose"}
BundledFiles == {".bandit_basic", ".bandit", "semgrep.yml"}
ExitCodes == (-1)..MaxExitCode

PathAtoms == {"a", SP, DQ, BS}
StdoutAtoms == {"Energy consumption in joules", ":", "x", SP, NL}

DefaultPath == <<SLASH, "a">>
EnergibridgePath == <<SLASH, "energibridge">>
TempCsvPath == <<SLASH, "tmp", SLASH, "tmpsamples.csv">>

\* absolute paths: the root followed by a name of at most n characters
AbsPaths(n, atoms) == {<<SLASH>> \o b : b \in SeqsUpTo(atoms, n)}

\* ------------------------------------------------------------ state
VARIABLES
    os_posix,        \* os.name != 'nt'
    tool,            \* args.tool
    config_level,    \* args.config_level
    repo_path,       \* str(args.repo_path.resolve())
    pkg_dir,         \* directory the package is installed in
    storage,         \* "dir": package files are real files; "zip": packaged storage
    bundled,         \* config file names present in the package
    ebIsFile,        \* args.energibridge_path.is_file()
    repoIsDir,       \* args.repo_path.is_dir()
    scannerInPath,   \* the scanner executable can be located by the wrapper
    launchFault,     \* what starting command_list[0] does: "none", "not_found", "other"
    childStdout,     \* what the child process writes on stdout
    fs,              \* paths of the files that exist
    pc,              \* position in main / run_measurement
    raised,          \* exception propagating out of build_scan_command
    scan_cmd,        \* scan_cmd_str
    config_path_str, \* path handed to the scanner's config flag (<<>> if none)
    temp_file_path,
    scan_cmd_parts,
    command_list,
    launched,        \* a child process was started
    returncode,
    stdout,          \* captured stdout
    outcome,
    exitCode,        \* process exit status, -1 while running
    emitted          \* what the reporting step prints of the captured stdout

vars == <<os_posix, tool, config_level, repo_path, pkg_dir, storage, bundled,
          ebIsFile, repoIsDir, scannerInPath, launchFault, childStdout, fs, pc,
          raised, scan_cmd, config_path_str, temp_file_path, scan_cmd_parts,
          command_list, launched, returncode, stdout, outcome, exitCode, emitted>>

env == <<os_posix, tool, config_level, repo_path, pkg_dir, storage, bundled,
         ebIsFile, repoIsDir, scannerInPath, launchFault, childStdout>>

\* ------------------------------------------------- get_package_config_path
InstalledPath(dir, name) ==
    dir \o <<SLASH, PACKAGE_NAME, SLASH, CONFIG_DIR_NAME, SLASH, name>>

ExtractedPath(name) == <<SLASH, "tmp", SLASH, "tmpextract", name>>

\* mutant: the is_file() check left out
GetPackageConfigPathUnchecked(config_filename, bnd) == TRUE

\* config_path.is_file() on the traversable
GetPackageConfigPath(config_filename, bnd) == config_filename \in bnd

\* importlib.resources.as_file: __enter__ yields a real path, extracting the
\* resource to a temporary file when it is not one; __exit__ removes that file
AsFilePath(name, stor, dir) ==
    IF stor = "dir" THEN InstalledPath(dir, name) ELSE ExtractedPath(name)

AsFileEnter(f, name, stor, dir) ==
    IF stor = "dir" THEN f ELSE f \cup {ExtractedPath(name)}

AsFileExit(f, name, stor, dir) ==
    IF stor = "dir" THEN f ELSE f \ {ExtractedPath(name)}

\* ------------------------------------------------------ build_scan_command
Quoted(s) == <<DQ>> \o s \o <<DQ>>

BanditCommand(cfg, repo) ==
    <<"bandit", SP, "-c", SP>> \o Quoted(cfg) \o <<SP, "-r", SP>> \o Quoted(repo)

SemgrepCommand(ref, repo) ==
    <<"semgrep", SP, "scan", SP>> \o Quoted(repo) \o <<SP, "--verbose", SP, "--config=">> \o ref

Raises(exc) == [raises |-> exc, cmd |-> <<>>, cfg |-> <<>>, name |-> ""]
Returns(c, p, n) == [raises |-> "none", cmd |-> c, cfg |-> p, name |-> n]

\* [raises, cmd, cfg, name]: the exception raised or the command string
\* returned, the config path put in it and the bundled file it was made from
BuildScanCommand(t, lvl, repo, bnd, stor, dir) ==
    IF t = "bandit" THEN
        IF lvl \notin DOMAIN BANDIT_CONFIG_FILES THEN Raises("ValueError")
        ELSE LET config_filename == BANDIT_CONFIG_FILES[lvl]
             IN  IF ~GetPackageConfigPath(config_filename, bnd) THEN Raises("FileNotFoundError")
                 ELSE LET p == AsFilePath(config_filename, stor, dir)
                      IN  Returns(BanditCommand(p, repo), p, config_filename)
    ELSE IF t = "semgrep" THEN
        IF lvl \notin DOMAIN SEMGREP_CONFIG_FILES THEN Raises("ValueError")
        ELSE LET config_identifier == SEMGREP_CONFIG_FILES[lvl]
             IN  IF lvl = "loose" THEN
                     IF ~GetPackageConfigPath(config_identifier, bnd) THEN Raises("FileNotFoundError")
                     ELSE LET p == AsFilePath(config_identifier, stor, dir)
                          IN  Returns(SemgrepCommand(p, repo), p, config_identifier)
                 ELSE IF lvl = "strict" THEN
                     Returns(SemgrepCommand(<<config_identifier>>, repo), <<>>, "")
                 ELSE Raises("ValueError")
    ELSE Raises("ValueError")

\* --------------------------------------------------------- run_measurement
\* mutant: the temporary file created with delete=False
KeepTempFile(f, p) == f

\* leaving the `with tempfile.NamedTemporaryFile(delete=True)` block
CloseTempFile(f, p) == f \ {p}

BaseCommandList(eb, tmp) == <<eb, <<"-o">>, tmp, <<"--summary">>>>

\* [arg.strip('"') for arg in scan_cmd_parts]
StripQuotes(parts) == [i \in 1..Len(parts) |-> StripChars(parts[i], {DQ})]

\* mutant: FileNotFoundError not told apart from the other exceptions
LaunchHandlerGeneric(fault) == "except_Exception"

\* which handler a failure to start the child reaches
LaunchHandler(fault) ==
    IF fault = "not_found" THEN "except_FileNotFoundError" ELSE "except_Exception"

\* mutant: exit code 2 taken as a tool error whatever the tool
ClassifyAnyTool(tool_name, rc) ==
    IF rc = 2 THEN "ToolError"
    ELSE IF tool_name \in {"bandit", "semgrep"} /\ rc = 1 THEN "FindingsDetected"
    ELSE "UnexpectedFailure"

\* the branch of `except subprocess.CalledProcessError` taken
Classify(tool_name, rc) ==
    IF tool_name = "bandit" /\ rc = 2 THEN "ToolError"
    ELSE IF tool_name \in {"bandit", "semgrep"} /\ rc = 1 THEN "FindingsDetected"
    ELSE "UnexpectedFailure"

\* mutant: the findings branch ends in sys.exit(1) too
BranchExitsOnFindings(cls) == cls \in {"ToolError", "UnexpectedFailure", "FindingsDetected"}

\* the branches that end in sys.exit(1)
BranchExits(cls) == cls \in {"ToolError", "UnexpectedFailure"}

\* mutant: every line stripped before it is printed
ReportLinesStripEach(out) ==
    IF out = <<>> THEN <<>>
    ELSE LET lines == SplitLines(Strip(out))
         IN  [i \in 1..Len(lines) |->
                 [tagged |-> Contains(lines[i], EnergyMarker), text |-> Strip(lines[i]),
                  stream |-> "stdout"]]

\* the loop that prints the lines of the captured stdout
ReportLines(out) ==
    IF out = <<>> THEN <<>>
    ELSE LET lines == SplitLines(Strip(out))
         IN  [i \in 1..Len(lines) |->
                 [tagged |-> Contains(lines[i], EnergyMarker), text |-> lines[i],
                  stream |-> "stdout"]]

\* print(e.stdout.strip() if e.stdout else "[No stdout]", file=sys.stderr)
ReportBlock(out) ==
    <<[tagged |-> FALSE, text |-> IF out # <<>> THEN Strip(out) ELSE <<"[No stdout]">>,
       stream |-> "stderr"]>>

\* mutant: the is_dir() check left out
RepoPathUnchecked(isDir) == TRUE

\* the validations of main
EnergibridgePathValid(isFile) == isFile
RepoPathValid(isDir) == isDir

\* ------------------------------------------------------------ initial states
DefaultStdout == <<"x", NL, "Energy consumption in joules", ":", SP, "x", NL>>

\* the program state at the start of a run, whatever the environment
ProgramStart(start) ==
    /\ fs = IF storage = "dir" THEN {InstalledPath(pkg_dir, n) : n \in bundled} ELSE {}
    /\ pc = start
    /\ raised = "none"
    /\ scan_cmd = <<>>
    /\ config_path_str = <<>>
    /\ temp_file_path = <<>>
    /\ scan_cmd_parts = <<>>
    /\ command_list = <<>>
    /\ launched = FALSE
    /\ returncode = 0
    /\ stdout = <<>>
    /\ outcome = "none"
    /\ exitCode = -1
    /\ emitted = <<>>

\* every environment, plain paths
EnvInputs ==
    /\ os_posix = TRUE
    /\ tool \in Tools \cup {"pylint"}
    /\ config_level \in Levels \cup {"medium"}
    /\ repo_path = DefaultPath
    /\ pkg_dir = DefaultPath
    /\ storage \in {"dir", "zip"}
    /\ bundled \in SUBSET BundledFiles
    /\ ebIsFile \in BOOLEAN
    /\ repoIsDir \in BOOLEAN
    /\ scannerInPath \in BOOLEAN
    /\ launchFault \in {"none", "not_found", "other"}
    /\ childStdout = DefaultStdout

\* every path, sound environment; a Windows file name holds no double quote
PathInputs ==
    /\ os_posix \in BOOLEAN
    /\ tool \in Tools
    /\ config_level \in Levels
    /\ repo_path \in AbsPaths(MaxPathLen, IF os_posix THEN PathAtoms ELSE PathAtoms \ {DQ})
    /\ pkg_dir \in AbsPaths(MaxCfgLen, IF os_posix THEN PathAtoms ELSE PathAtoms \ {DQ})
    /\ storage = "dir"
    /\ bundled = BundledFiles
    /\ ebIsFile = TRUE
    /\ repoIsDir = TRUE
    /\ scannerInPath = TRUE
    /\ launchFault = "none"
    /\ childStdout = DefaultStdout

\* every child output, sound environment
OutputInputs ==
    /\ os_posix = TRUE
    /\ tool = "bandit"
    /\ config_level = "strict"
    /\ repo_path = DefaultPath
    /\ pkg_dir = DefaultPath
    /\ storage = "dir"
    /\ bundled = BundledFiles
    /\ ebIsFile = TRUE
    /\ repoIsDir = TRUE
    /\ scannerInPath = TRUE
    /\ launchFault = "none"
    /\ childStdout \in SeqsUpTo(StdoutAtoms, MaxStdoutLen)

Init == (EnvInputs \/ PathInputs \/ OutputInputs) /\ ProgramStart("parse")

\* build_scan_command and run_measurement called directly, argparse bypassed
InitApi == EnvInputs /\ ebIsFile = TRUE /\ repoIsDir = TRUE /\ ProgramStart("build")

\* ------------------------------------------------------------ actions
\* sys.exit(code), or main running to its end
SysExit(code, oc) ==
    /\ pc' = "exit"
    /\ exitCode' = code
    /\ outcome' = oc

\* parser.parse_args(): choices=[...] rejects other values with status 2
ParseArgs ==
    /\ pc = "parse"
    /\ IF tool \in Tools /\ config_level \in Levels
       THEN pc' = "check_energibridge" /\ UNCHANGED <<exitCode, outcome>>
       ELSE SysExit(2, "UsageError")
    /\ UNCHANGED <<env, fs, raised, scan_cmd, config_path_str, temp_file_path,
                   scan_cmd_parts, command_list, launched, returncode, stdout, emitted>>

CheckEnergibridgePath ==
    /\ pc = "check_energibridge"
    /\ IF EnergibridgePathValid(ebIsFile)
       THEN pc' = "check_repo" /\ UNCHANGED <<exitCode, outcome>>
       ELSE SysExit(1, "InvalidEnergibridgePath")
    /\ UNCHANGED <<env, fs, raised, scan_cmd, config_path_str, temp_file_path,
                   scan_cmd_parts, command_list, launched, returncode, stdout, emitted>>

CheckRepoPath ==
    /\ pc = "check_repo"
    /\ IF RepoPathValid(repoIsDir)
       THEN pc' = "build" /\ UNCHANGED <<exitCode, outcome>>
       ELSE SysExit(1, "InvalidRepoPath")
    /\ UNCHANGED <<env, fs, raised, scan_cmd, config_path_str, temp_file_path,
                   scan_cmd_parts, command_list, launched, returncode, stdout, emitted>>

\* scan_cmd_str = build_scan_command(args.tool, args.config_level, repo_path_abs)
CallBuildScanCommand ==
    /\ pc = "build"
    /\ LET b == BuildScanCommand(tool, config_level, repo_path, bundled, storage, pkg_dir)
       IN  IF b.raises # "none"
           THEN /\ raised' = b.raises
                /\ pc' = "except_setup"
                /\ UNCHANGED <<scan_cmd, config_path_str, fs>>
           ELSE /\ scan_cmd' = b.cmd
                /\ config_path_str' = b.cfg
                /\ fs' = IF b.cfg = <<>> THEN fs
                         ELSE AsFileExit(AsFileEnter(fs, b.name, storage, pkg_dir),
                                         b.name, storage, pkg_dir)
                /\ pc' = "run"
                /\ UNCHANGED raised
    /\ UNCHANGED <<env, temp_file_path, scan_cmd_parts, command_list, launched,
                   returncode, stdout, outcome, exitCode, emitted>>

\* main: except FileNotFoundError / except ValueError
MainExcept ==
    /\ pc = "except_setup"
    /\ SysExit(1, IF raised = "FileNotFoundError" THEN "ConfigNotFound"
                  ELSE "UnsupportedSelection")
    /\ UNCHANGED <<env, fs, raised, scan_cmd, config_path_str, temp_file_path,
                   scan_cmd_parts, command_list, launched, returncode, stdout, emitted>>

\* with tempfile.NamedTemporaryFile(...) as temp_output_file
OpenTempFile ==
    /\ pc = "run"
    /\ temp_file_path' = TempCsvPath
    /\ fs' = fs \cup {TempCsvPath}
    /\ pc' = "split"
    /\ UNCHANGED <<env, raised, scan_cmd, config_path_str, scan_cmd_parts, command_list,
                   launched, returncode, stdout, outcome, exitCode, emitted>>

\* shlex.split(scan_cmd, ...), the strip of the quotes, command_list
SplitScanCommand ==
    /\ pc = "split"
    /\ LET r == ShlexSplit(scan_cmd, os_posix)
       IN  IF r.err
           THEN /\ SysExit(1, "SplitError")
                /\ fs' = CloseTempFile(fs, temp_file_path)
                /\ UNCHANGED <<scan_cmd_parts, command_list>>
           ELSE /\ scan_cmd_parts' = StripQuotes(r.toks)
                /\ command_list' = BaseCommandList(EnergibridgePath, temp_file_path)
                                     \o StripQuotes(r.toks)
                /\ pc' = "launch"
                /\ UNCHANGED <<fs, outcome, exitCode>>
    /\ UNCHANGED <<env, raised, scan_cmd, config_path_str, temp_file_path, launched,
                   returncode, stdout, emitted>>

\* subprocess.run(command_list, check=True, capture_output=True, text=True)
RunSubprocess ==
    /\ pc = "launch"
    /\ IF launchFault # "none"
       THEN /\ pc' = LaunchHandler(launchFault)
            /\ UNCHANGED <<launched, returncode, stdout>>
       ELSE /\ launched' = TRUE
            /\ stdout' = childStdout
            /\ \E rc \in ExitCodes :
                  /\ returncode' = rc
                  /\ pc' = IF rc = 0 THEN "report" ELSE "except_CalledProcessError"
    /\ UNCHANGED <<env, fs, raised, scan_cmd, config_path_str, temp_file_path,
                   scan_cmd_parts, command_list, outcome, exitCode, emitted>>

\* exit code 0: print the lines, leave the with block, return
ReportSuccess ==
    /\ pc = "report"
    /\ emitted' = ReportLines(stdout)
    /\ outcome' = "Success"
    /\ fs' = CloseTempFile(fs, temp_file_path)
    /\ pc' = "returned"
    /\ UNCHANGED <<env, raised, scan_cmd, config_path_str, temp_file_path, scan_cmd_parts,
                   command_list, launched, returncode, stdout, exitCode>>

\* except subprocess.CalledProcessError as e
HandleCalledProcessError ==
    /\ pc = "except_CalledProcessError"
    /\ LET cls == Classify(tool, returncode)
       IN  IF BranchExits(cls)
           THEN /\ emitted' = ReportBlock(stdout)
                /\ SysExit(1, cls)
           ELSE /\ emitted' = ReportLines(stdout)
                /\ outcome' = cls
                /\ pc' = "returned"
                /\ UNCHANGED exitCode
    /\ fs' = CloseTempFile(fs, temp_file_path)
    /\ UNCHANGED <<env, raised, scan_cmd, config_path_str, temp_file_path, scan_cmd_parts,
                   command_list, launched, returncode, stdout>>

\* except FileNotFoundError
HandleFileNotFoundError ==
    /\ pc = "except_FileNotFoundError"
    /\ SysExit(1, "ExecutableNotFound")
    /\ fs' = CloseTempFile(fs, temp_file_path)
    /\ UNCHANGED <<env, raised, scan_cmd, config_path_str, temp_file_path, scan_cmd_parts,
                   command_list, launched, returncode, stdout, emitted>>

\* except Exception as e
HandleException ==
    /\ pc = "except_Exception"
    /\ SysExit(1, "ExecutionError")
    /\ fs' = CloseTempFile(fs, temp_file_path)
    /\ UNCHANGED <<env, raised, scan_cmd, config_path_str, temp_file_path, scan_cmd_parts,
                   command_list, launched, returncode, stdout, emitted>>

\* run_measurement returned: main ends, the interpreter exits with status 0
MainReturn ==
    /\ pc = "returned"
    /\ pc' = "exit"
    /\ exitCode' = 0
    /\ UNCHANGED <<env, fs, raised, scan_cmd, config_path_str, temp_file_path, scan_cmd_parts,
                   command_list, launched, returncode, stdout, outcome, emitted>>

RunMeasurement ==
    \/ OpenTempFile
    \/ SplitScanCommand
    \/ RunSubprocess
    \/ ReportSuccess
    \/ HandleCalledProcessError
    \/ HandleFileNotFoundError
    \/ HandleException

Next ==
    \/ ParseArgs
    \/ CheckEnergibridgePath
    \/ CheckRepoPath
    \/ CallBuildScanCommand
    \/ MainExcept
    \/ RunMeasurement
    \/ MainReturn

NextApi ==
    \/ CallBuildScanCommand
    \/ RunMeasurement

Spec == Init /\ [][Next]_vars

SpecApi == InitApi /\ [][NextApi]_vars

\* ------------------------------------------------------------ properties
Supported(t, lvl) == t \in Tools /\ lvl \in Levels

\* the bundled file a supported pair refers to, "" for the registry identifier
RequiredFile(t, lvl) ==
    IF t = "bandit" THEN BANDIT_CONFIG_FILES[lvl]
    ELSE IF lvl = "loose" THEN SEMGREP_CONFIG_FILES[lvl] ELSE ""

ConfigMissing ==
    /\ Supported(tool, config_level)
    /\ RequiredFile(tool, config_level) # ""
    /\ RequiredFile(tool, config_level) \notin bundled

LeftRunMeasurement == temp_file_path # <<>> /\ pc \in {"returned", "exit"}

SplitDone == temp_file_path # <<>> /\ pc # "split"

\* C1: a run whose child returned an exit code is classified by the fixed
\* table: 0 Success, 1 FindingsDetected, 2 ToolError for bandit only, every
\* other code (and 2 for semgrep) UnexpectedFailure.
ClassificationTable(t, rc) ==
    CASE rc = 0 -> "Success"
      [] rc = 1 -> "FindingsDetected"
      [] rc = 2 /\ t = "bandit" -> "ToolError"
      [] OTHER -> "UnexpectedFailure"

C1_Classification ==
    (launched /\ pc \in {"returned", "exit"}) =>
        outcome = ClassificationTable(tool, returncode)

C1_Witness ==
    /\ launched /\ pc = "exit"
    /\ tool = "semgrep" /\ returncode = 2
    /\ outcome = "UnexpectedFailure"

\* C2: a run of main that got past argument parsing exits with 0 exactly when
\* it is classified Success or FindingsDetected and with 1 otherwise; a child
\* exit code of 1 never gives a nonzero exit code.
C2_ExitCode ==
    (pc = "exit" /\ outcome # "UsageError") =>
        /\ exitCode \in {0, 1}
        /\ exitCode = 0 <=> outcome \in {"Success", "FindingsDetected"}
        /\ (launched /\ returncode = 1) => exitCode = 0

C2_Witness ==
    /\ pc = "exit" /\ launched /\ returncode = 1
    /\ outcome = "FindingsDetected" /\ exitCode = 0

\* C3: once run_measurement is left (by return or by sys.exit on any path),
\* the temporary sample file it allocated does not exist.
C3_TempFileRemoved == LeftRunMeasurement => temp_file_path \notin fs

C3_Witness ==
    /\ pc = "exit" /\ temp_file_path = TempCsvPath
    /\ outcome = "UnexpectedFailure" /\ exitCode = 1
    /\ temp_file_path \notin fs

\* C4: for every supported pair and every target path, the scanner arguments
\* obtained by splitting the built command start with the scanner's name
\* and hold the absolute target path as one unaltered element (stated here
\* for a config path of plain characters, so that only the target path counts).
C4_TargetPathArgument ==
    (SplitDone /\ Supported(tool, config_level) /\ pkg_dir = DefaultPath) =>
        /\ scan_cmd_parts # <<>>
        /\ scan_cmd_parts[1] = <<tool>>
        /\ \E i \in 1..Len(scan_cmd_parts) : scan_cmd_parts[i] = repo_path

\* C5: build_scan_command raises ValueError for every pair outside the 4
\* supported ones and FileNotFoundError when the bundled file of the pair is
\* absent; semgrep/strict never raises FileNotFoundError; when it raises, no
\* command is returned and no child process is launched.
C5_BuildFailures ==
    pc # "build" =>
        /\ ~Supported(tool, config_level) => raised = "ValueError"
        /\ ConfigMissing => raised = "FileNotFoundError"
        /\ (tool = "semgrep" /\ config_level = "strict") => raised = "none"
        /\ raised # "none" => (scan_cmd = <<>> /\ ~launched /\ pc = "except_setup")

C5_Witness ==
    /\ pc = "except_setup" /\ raised = "FileNotFoundError"
    /\ tool = "semgrep" /\ config_level = "loose"
    /\ "semgrep.yml" \notin bundled

RECURSIVE JoinLines(_)
JoinLines(recs) ==
    IF recs = <<>> THEN <<>>
    ELSE IF Len(recs) = 1 THEN recs[1].text
    ELSE recs[1].text \o <<NL>> \o JoinLines(Tail(recs))

TaggedLines(text) ==
    LET lines == SplitLines(text)
    IN  [i \in 1..Len(lines) |->
            [tagged |-> Contains(lines[i], EnergyMarker), text |-> lines[i],
             stream |-> "stdout"]]

\* C8 as stated: whatever the classification, every line of the captured
\* stdout is emitted in order with its text unaltered, tagged exactly when it
\* contains the energy marker.
C8_Original ==
    (launched /\ pc \in {"returned", "exit"}) => emitted = TaggedLines(stdout)

\* C8: in a run classified Success or FindingsDetected the emitted records
\* are lines (no line break inside), joined they give the captured stdout
\* less its leading and trailing whitespace, and a record is tagged exactly
\* when its text contains the energy marker; a run classified ToolError or
\* UnexpectedFailure emits no tagged record.
C8_TaggedLines ==
    (launched /\ pc \in {"returned", "exit"}) =>
        IF outcome \in {"Success", "FindingsDetected"}
        THEN /\ JoinLines(emitted) = Strip(stdout)
             /\ \A i \in 1..Len(emitted) :
                   /\ ~Contains(emitted[i].text, <<NL>>)
                   /\ emitted[i].tagged <=> Contains(emitted[i].text, EnergyMarker)
        ELSE \A i \in 1..Len(emitted) : ~emitted[i].tagged

C8_Witness ==
    /\ pc = "exit" /\ outcome = "FindingsDetected"
    /\ \E i, j \in 1..Len(emitted) : emitted[i].tagged /\ ~emitted[j].tagged
    /\ stdout # Strip(stdout)

\* C9: the argument list executed as the child is the four wrapper
\* arguments followed by exactly the five scanner arguments, the config path
\* or reference and the target path each being one argument.
ExpectedScannerArgs ==
    IF tool = "bandit"
    THEN <<<<"bandit">>, <<"-c">>, config_path_str, <<"-r">>, repo_path>>
    ELSE <<<<"semgrep">>, <<"scan">>, repo_path, <<"--verbose">>,
           <<"--config=">> \o (IF config_level = "strict"
                               THEN <<SEMGREP_CONFIG_FILES.strict>>
                               ELSE config_path_str)>>

C9_ExactArguments ==
    launched =>
        command_list = <<EnergibridgePath, <<"-o">>, temp_file_path, <<"--summary">>>>
                         \o ExpectedScannerArgs

\* C10: when the child is launched with a bundled-file configuration, the
\* config path handed to the scanner names a file that exists.
C10_ConfigFileExistsAtLaunch ==
    (launched /\ config_path_str # <<>>) => config_path_str \in fs
====
